---- MODULE Spec2Model ----
(***************************************************************************)
(* Camenisch-Shoup verifiable encryption (crate `verenc`): the Paillier     *)
(* style group, the key pair, encryption, decryption, and the Fiat-Shamir  *)
(* proof of correct encryption with its verifier.                          *)
(*                                                                         *)
(* BigNumber arithmetic is modelled on mathematical integers.  The merlin  *)
(* transcript is modelled as a lazily sampled oracle: a deterministic      *)
(* function of the byte strings absorbed, whose value on a new input is    *)
(* unconstrained.                                                          *)
(***************************************************************************)
EXTENDS Integers, Sequences, FiniteSets, TLC

VARIABLES group, dk, ek, ct, proof, encIn, res, hashOracle, fsOracle, pc

vars == <<group, dk, ek, ct, proof, encIn, res, hashOracle, fsOracle, pc>>

----------------------------------------------------------------------------
(* Bounds of the model.                                                    *)

\* capacities L of the generated keys range over 1..MaxLen
MaxLen == 2
\* g_tick, the random base of g, ranges over 0..MaxGTick
MaxGTick == 2
\* the 64-byte output of Group::hash is scaled down to HashBits bits
HashBits == 4
\* the 32-byte output of fiat_shamir is scaled down to ChallengeBits bits
ChallengeBits == 8

\* the pairs (p, q) handed to with_safe_primes_unchecked
PrimePairs == {<<1, 15>>, <<2, 5>>, <<3, 5>>, <<4, 5>>, <<5, 5>>, <<5, 7>>}
\* the sampled values of the secret exponents x1[i], x2, x3
SecretValues == {0, 1}
\* domain separation tags / nonces (byte strings)
Domains == {<<1>>, <<2>>}
\* the nonces proofs are made under
ProofNonces == {<<1>>}

RECURSIVE Pow2(_)
Pow2(k) == IF k = 0 THEN 1 ELSE 2 * Pow2(k - 1)

\* sampled outputs of the hash transcript: both ends of its range
HashValues == {0, 1, Pow2(HashBits) - 1}
\* sampled outputs of the challenge transcript: both ends of its range
ChallengeValues == {0, 1, Pow2(ChallengeBits) - 1}

----------------------------------------------------------------------------
(* BigNumber primitives (the unknown_order crate).                         *)

None == 0 - 1

RECURSIVE Egcd(_, _)
\* <<d, x, y>> with d = gcd(a, b) = a*x + b*y
Egcd(a, b) ==
    IF a = 0 THEN <<b, 0, 1>>
    ELSE LET r == Egcd(b % a, a)
         IN  <<r[1], r[3] - (b \div a) * r[2], r[2]>>

\* BigNumber::invert: the inverse of a modulo m, or None
invert(a, m) ==
    LET r == Egcd(a % m, m)
    IN  IF r[1] = 1 THEN r[2] % m ELSE None

RECURSIVE PowPos(_, _, _)
\* square and multiply, e >= 0
PowPos(b, e, m) ==
    IF e = 0 THEN 1
    ELSE LET half == PowPos(b, e \div 2, m)
             sq   == (half * half) % m
         IN  IF e % 2 = 1 THEN (sq * b) % m ELSE sq

\* BigNumber::modpow: a negative exponent raises the inverse of the base,
\* and gives zero when the base has no inverse
modpow(b, e, m) ==
    IF e < 0
    THEN LET a == invert(b, m)
         IN  IF a = None THEN 0 ELSE PowPos(a, 0 - e, m)
    ELSE PowPos(b, e, m)

\* BigNumber::modmul
modmul(a, b, m) == (a * b) % m

RECURSIVE to_bytes(_)
\* BigNumber::to_bytes of a value >= 0: minimal big-endian, no length prefix
to_bytes(x) ==
    IF x < 256 THEN <<x>> ELSE to_bytes(x \div 256) \o <<x % 256>>

RECURSIVE flatten_bytes(_)
\* xs.iter().map(|x| x.to_bytes()).flatten().collect()
flatten_bytes(xs) ==
    IF xs = <<>> THEN <<>> ELSE to_bytes(Head(xs)) \o flatten_bytes(Tail(xs))

----------------------------------------------------------------------------
(* Group                                                                   *)

NoGroup == [g |-> None, h |-> None, n |-> None, nd4 |-> None, nn |-> None,
            n2d2 |-> None, n2d4 |-> None, two_inv_two |-> None]

\* Group::with_safe_primes_unchecked that leaves out the shift of two_inv
with_safe_primes_unshifted(p, q, g_tick) ==
    IF p = q THEN NoGroup
    ELSE LET n == p * q
             nn == n * n
             two_inv == invert(2, n)
         IN  IF two_inv = None THEN NoGroup
             ELSE [g |-> modpow(g_tick % nn, nn * 2, nn), h |-> n + 1, n |-> n,
                   nd4 |-> n \div 4, nn |-> nn, n2d2 |-> nn \div 2,
                   n2d4 |-> (nn \div 2) \div 2, two_inv_two |-> two_inv]

\* Group::with_safe_primes_unchecked; g_tick is the value BigNumber::random(&nn)
\* returns, reduced into [0, nn)
with_safe_primes_unchecked(p, q, g_tick) ==
    IF p = q THEN NoGroup
    ELSE LET n       == p * q
             nn      == n * n
             two_inv == invert(2, n)
         IN  IF two_inv = None THEN NoGroup
             ELSE LET n2d2 == nn \div 2
                  IN  [g |-> modpow(g_tick % nn, nn * 2, nn),
                       h |-> n + 1,
                       n |-> n,
                       nd4 |-> n \div 4,
                       nn |-> nn,
                       n2d2 |-> n2d2,
                       n2d4 |-> n2d2 \div 2,
                       two_inv_two |-> two_inv * 2]

\* Group::abs with the comparison tv >= n2d2 in place of tv > n2d2
abs_ge(G, a) ==
    LET tv == a % G.nn
    IN  IF tv >= G.n2d2 THEN G.nn - tv ELSE tv

\* Group::abs, for a >= 0
abs(G, a) ==
    LET tv == a % G.nn
    IN  IF tv > G.n2d2 THEN G.nn - tv ELSE tv

\* Group::pow
pow(G, base, exp) == modpow(base, exp, G.nn)

\* Group::mul
mul(G, lhs, rhs) == modmul(lhs, rhs, G.nn)

\* Group::g_pow
g_pow(G, exp) == modpow(G.g, exp, G.nn)

\* Group::h_pow
h_pow(G, exp) == modpow(G.h, exp, G.nn)

\* the values Group::random_for_encrypt can return: nonzero and below n / 4;
\* sampled at both ends of the range
random_for_encrypt(G) == {r \in {1, G.nd4 - 1} : 1 <= r /\ r < G.nd4}

\* the byte strings Group::hash absorbs under "u", "e" and "domain"
hash_input(u, e, domain) == <<to_bytes(u), flatten_bytes(e), domain>>

----------------------------------------------------------------------------
(* The transcript oracle: a set of [q |-> input, v |-> output] answers.     *)

\* v is an answer the oracle can give on input q
Answers(oracle, q, v) == \A a \in oracle : a.q = q => a.v = v

Record(oracle, q, v) == oracle \cup {[q |-> q, v |-> v]}

----------------------------------------------------------------------------
(* Keys                                                                    *)

NoDk == [x1 |-> <<>>, x2 |-> None, x3 |-> None]
NoEk == [y1 |-> <<>>, y2 |-> None, y3 |-> None]
NoCt == [u |-> None, v |-> None, e |-> <<>>]
NoProof == [challenge |-> None, r |-> None, m |-> <<>>]
\* what is known of the ciphertext (and proof) in flight: the inputs it was made
\* from, whether it is still as the library returned it, and how it was altered
NoIn == [domain |-> <<>>, msgs |-> <<>>, r |-> None, r_tick |-> None,
         blindings |-> <<>>, hash |-> None, test |-> NoCt, honest |-> FALSE,
         tamper |-> "none"]
NoRes == [op |-> "none", status |-> "none", idx |-> None, arg |-> None,
          val |-> None, msgs |-> <<>>, domain |-> <<>>]

\* sampled vectors of length k over S: the constant vectors and the vectors
\* that differ from the constant vector of base at one index
SampleSeqs(S, base, k) ==
    {[i \in 1..k |-> x] : x \in S}
        \cup {[i \in 1..k |-> IF i = j THEN x ELSE base] : j \in 1..k, x \in S}

\* impl From<&DecryptionKey> for EncryptionKey
EncryptionKeyFrom(G, d) ==
    [y1 |-> [i \in 1..Len(d.x1) |-> g_pow(G, d.x1[i])],
     y2 |-> g_pow(G, d.x2),
     y3 |-> g_pow(G, d.x3)]

----------------------------------------------------------------------------
(* Initial state and the group operations                                  *)

Init ==
    /\ group = NoGroup
    /\ dk = NoDk
    /\ ek = NoEk
    /\ ct = NoCt
    /\ proof = NoProof
    /\ encIn = NoIn
    /\ res = NoRes
    /\ hashOracle = {}
    /\ fsOracle = {}
    /\ pc = "nogroup"

\* Group::with_safe_primes_unchecked(p, q)
NewGroup ==
    /\ pc = "nogroup"
    /\ \E pq \in PrimePairs, g_tick \in 0..MaxGTick :
          LET G == with_safe_primes_unchecked(pq[1], pq[2], g_tick)
          IN  /\ group' = G
              /\ pc' = IF G = NoGroup THEN "nogroup" ELSE "group"
              /\ res' = [NoRes EXCEPT !.op = "with_safe_primes_unchecked",
                                      !.status = IF G = NoGroup THEN "None" ELSE "Some",
                                      !.arg = pq[1], !.val = pq[2]]
    /\ UNCHANGED <<dk, ek, ct, proof, encIn, hashOracle, fsOracle>>

\* Group::abs(a), a in [0, nn]
AbsOp ==
    /\ pc = "group"
    /\ \E a \in 0..(group.nn + 1) :
          res' = [NoRes EXCEPT !.op = "abs", !.status = "Ok", !.arg = a,
                               !.val = abs(group, a)]
    /\ pc' = "done"
    /\ UNCHANGED <<group, dk, ek, ct, proof, encIn, hashOracle, fsOracle>>

\* Group::new_keys(max_messages): DecryptionKey::random and EncryptionKey::from
NewKeys ==
    /\ pc = "group"
    /\ \E L \in 0..MaxLen :
          IF L < 1
          THEN /\ res' = [NoRes EXCEPT !.op = "new_keys", !.status = "None"]
               /\ UNCHANGED <<dk, ek, pc>>
          ELSE \E x1 \in SampleSeqs(SecretValues, 1, L), x2 \in SecretValues, x3 \in SecretValues :
                  LET d == [x1 |-> x1, x2 |-> x2, x3 |-> x3]
                  IN  /\ dk' = d
                      /\ ek' = EncryptionKeyFrom(group, d)
                      /\ pc' = "keys"
                      /\ res' = [NoRes EXCEPT !.op = "new_keys", !.status = "Some"]
    /\ UNCHANGED <<group, ct, proof, encIn, hashOracle, fsOracle>>

----------------------------------------------------------------------------
(* EncryptionKey: encryption                                               *)

\* EncryptionKey::compute_u
compute_u(G, r) == g_pow(G, r)

\* EncryptionKey::compute_e
compute_e(G, k, msgs, r) ==
    [i \in 1..Len(msgs) |-> mul(G, pow(G, k.y1[i], r), h_pow(G, msgs[i]))]

\* EncryptionKey::compute_v that never takes abs
compute_v_raw(G, k, r, hv, useAbs) ==
    pow(G, mul(G, pow(G, k.y3, hv), k.y2), r)

\* EncryptionKey::compute_v
compute_v(G, k, r, hv, useAbs) ==
    LET v == pow(G, mul(G, pow(G, k.y3, hv), k.y2), r)
    IN  IF useAbs THEN abs(G, v) ELSE v

\* EncryptionKey::encrypt_with_blinding_factor; hv is the value of
\* hash(u, e, domain)
encrypt_with_blinding_factor(G, k, msgs, r, hv) ==
    [u |-> compute_u(G, r),
     e |-> compute_e(G, k, msgs, r),
     v |-> compute_v(G, k, r, hv, TRUE)]

\* the messages offered to encryption: both ends of [0, n) and just above
MsgValues(G) == {0, G.n - 1, G.n, G.n + 1}

\* the first index (from 0) of msgs that EncryptionKey::encrypt rejects, or None
InvalidMessageAt(G, msgs) ==
    LET bad == {i \in 1..Len(msgs) : msgs[i] > G.n}
    IN  IF bad = {} THEN None
        ELSE (CHOOSE i \in bad : \A j \in bad : i <= j) - 1

\* EncryptionKey::encrypt before r is drawn: the two early returns
encrypt_precheck(G, k, msgs) ==
    IF Len(msgs) > Len(k.y1) THEN "CapacityExceeded"
    ELSE IF InvalidMessageAt(G, msgs) # None THEN "InvalidMessage"
    ELSE "Ok"

\* EncryptionKey::encrypt(domain, msgs)
Encrypt ==
    /\ pc = "keys"
    /\ \E domain \in Domains, k \in 0..(Len(ek.y1) + 1) :
       \E msgs \in SampleSeqs(MsgValues(group), 0, k) :
          LET pre == encrypt_precheck(group, ek, msgs)
          IN  IF pre # "Ok"
              THEN /\ res' = [NoRes EXCEPT
                                !.op = "encrypt", !.status = pre,
                                !.idx = IF pre = "InvalidMessage"
                                        THEN InvalidMessageAt(group, msgs) ELSE None,
                                !.arg = Len(msgs), !.msgs = msgs, !.domain = domain]
                   /\ pc' = "done"
                   /\ UNCHANGED <<ct, encIn, hashOracle>>
              ELSE \E r \in random_for_encrypt(group) :
                      LET q == hash_input(compute_u(group, r),
                                          compute_e(group, ek, msgs, r), domain)
                      IN  \E hv \in HashValues :
                             /\ Answers(hashOracle, q, hv)
                             /\ hashOracle' = Record(hashOracle, q, hv)
                             /\ ct' = encrypt_with_blinding_factor(group, ek, msgs, r, hv)
                             /\ encIn' = [NoIn EXCEPT !.domain = domain, !.msgs = msgs,
                                                      !.r = r, !.hash = hv,
                                                      !.honest = TRUE]
                             /\ res' = [NoRes EXCEPT !.op = "encrypt", !.status = "Ok",
                                                     !.arg = Len(msgs), !.msgs = msgs,
                                                     !.domain = domain]
                             /\ pc' = "ct"
    /\ UNCHANGED <<group, dk, ek, proof, fsOracle>>

----------------------------------------------------------------------------
(* Ciphertexts that did not come from the library unaltered                *)

\* the v of a ciphertext in flight is replaced by n^2 - v
NegateV ==
    /\ pc = "ct"
    /\ encIn.honest
    /\ ct' = [ct EXCEPT !.v = group.nn - ct.v]
    /\ encIn' = [encIn EXCEPT !.honest = FALSE, !.tamper = "v"]
    /\ res' = NoRes
    /\ UNCHANGED <<group, dk, ek, proof, hashOracle, fsOracle, pc>>

\* the v offered in a forged ciphertext: 1, around n^2 / 2 and around n^2
ForgedV(G) == {1, G.n2d2, G.n2d2 + 1, G.nn - 1, G.nn, G.nn + 1}

\* a ciphertext of the sender's own making, of up to L + 1 components
ForgeCiphertext ==
    /\ pc = "keys"
    /\ \E u \in {1, group.g}, v \in ForgedV(group), k \in 0..(Len(ek.y1) + 1) :
       \E e \in SampleSeqs({0, 1, group.h}, 1, k) :
          ct' = [u |-> u, v |-> v, e |-> e]
    /\ encIn' = [NoIn EXCEPT !.tamper = "forged"]
    /\ res' = NoRes
    /\ pc' = "ct"
    /\ UNCHANGED <<group, dk, ek, proof, hashOracle, fsOracle>>

----------------------------------------------------------------------------
(* DecryptionKey: decryption                                               *)

RECURSIVE DecryptUnchecked(_, _, _, _)
\* the loop of DecryptionKey::decrypt without the check of m_hat mod n
DecryptUnchecked(G, d, c, i) ==
    IF i > Len(c.e) \/ i > Len(d.x1)
    THEN [status |-> "Ok", idx |-> None, msgs |-> <<>>]
    ELSE LET u_x1_inv == invert(pow(G, c.u, d.x1[i]), G.nn)
             e        == mul(G, u_x1_inv, c.e[i])
             m_hat    == pow(G, e, G.two_inv_two)
             rest     == DecryptUnchecked(G, d, c, i + 1)
         IN  IF u_x1_inv = None
             THEN [status |-> "InvalidCiphertext", idx |-> None, msgs |-> <<>>]
             ELSE IF rest.status # "Ok" THEN rest
             ELSE [rest EXCEPT !.msgs = <<(m_hat - 1) \div G.n>> \o rest.msgs]

RECURSIVE DecryptFrom(_, _, _, _)
\* the loop of DecryptionKey::decrypt from component i on, over
\* ciphertext.e zipped with x1: the status, the failing index, the messages
DecryptFrom(G, d, c, i) ==
    IF i > Len(c.e) \/ i > Len(d.x1)
    THEN [status |-> "Ok", idx |-> None, msgs |-> <<>>]
    ELSE LET u_x1_inv == invert(pow(G, c.u, d.x1[i]), G.nn)
             e        == mul(G, u_x1_inv, c.e[i])
             m_hat    == pow(G, e, G.two_inv_two)
             rest     == DecryptFrom(G, d, c, i + 1)
         IN  IF u_x1_inv = None
             THEN [status |-> "InvalidCiphertext", idx |-> None, msgs |-> <<>>]
             ELSE IF m_hat % G.n # 1
             THEN [status |-> "DecryptionFailed", idx |-> i - 1, msgs |-> <<>>]
             ELSE IF rest.status # "Ok" THEN rest
             ELSE [rest EXCEPT !.msgs = <<(m_hat - 1) \div G.n>> \o rest.msgs]

\* DecryptionKey::decrypt whose capacity check lets one more component through
decrypt_precheck_off_by_one(G, d, c) ==
    IF Len(d.x1) + 1 < Len(c.e) THEN "CapacityExceeded"
    ELSE IF c.v # abs(G, c.v) THEN "AbsCheckFailed"
    ELSE "Ok"

\* DecryptionKey::decrypt without the absolute-value check
decrypt_precheck_no_abs(G, d, c) ==
    IF Len(d.x1) < Len(c.e) THEN "CapacityExceeded" ELSE "Ok"

\* DecryptionKey::decrypt before the hash is taken: the two early returns
decrypt_precheck(G, d, c) ==
    IF Len(d.x1) < Len(c.e) THEN "CapacityExceeded"
    ELSE IF c.v # abs(G, c.v) THEN "AbsCheckFailed"
    ELSE "Ok"

\* DecryptionKey::decrypt without the comparison of u^exp with v^2
decrypt_with_hash_unchecked(G, d, c, hv) == DecryptFrom(G, d, c, 1)

\* DecryptionKey::decrypt after the hash is taken; hv is the value of
\* hash(ciphertext.u, ciphertext.e, domain)
decrypt_with_hash(G, d, c, hv) ==
    LET exp == (hv * d.x3 + d.x2) * 2
        u   == pow(G, c.u, exp)
        v   == pow(G, c.v, 2)
    IN  IF u # v
        THEN [status |-> "ConsistencyFailed", idx |-> None, msgs |-> <<>>]
        ELSE DecryptFrom(G, d, c, 1)

\* DecryptionKey::decrypt(domain, ciphertext)
Decrypt ==
    /\ pc = "ct"
    /\ \E domain \in Domains :
          LET pre == decrypt_precheck(group, dk, ct)
              q   == hash_input(ct.u, ct.e, domain)
          IN  IF pre # "Ok"
              THEN /\ res' = [NoRes EXCEPT !.op = "decrypt", !.status = pre,
                                            !.domain = domain]
                   /\ UNCHANGED hashOracle
              ELSE \E hv \in HashValues :
                      LET out == decrypt_with_hash(group, dk, ct, hv)
                      IN  /\ Answers(hashOracle, q, hv)
                          /\ hashOracle' = Record(hashOracle, q, hv)
                          /\ res' = [NoRes EXCEPT !.op = "decrypt", !.status = out.status,
                                                  !.idx = out.idx, !.msgs = out.msgs,
                                                  !.val = hv, !.domain = domain]
    /\ pc' = "done"
    /\ UNCHANGED <<group, dk, ek, ct, proof, encIn, fsOracle>>

----------------------------------------------------------------------------
(* EncryptionKey: proof generation and verification                        *)

\* EncryptionKey::ciphertext_test_values
ciphertext_test_values(G, k, r, hv, msgs) ==
    LET two_r == r * 2
        two_m == [i \in 1..Len(msgs) |-> msgs[i] * 2]
    IN  [u |-> compute_u(G, two_r),
         e |-> compute_e(G, k, two_m, two_r),
         v |-> compute_v(G, k, two_r, hv, FALSE)]

\* EncryptionKey::schnorr
schnorr(G, tilde, challenge, value) == tilde - mul(G, challenge, value)

\* the byte strings EncryptionKey::fiat_shamir absorbs, in order
fiat_shamir_input(G, k, nonce, c, test_values) ==
    <<nonce, to_bytes(G.n), to_bytes(G.g), to_bytes(k.y2), to_bytes(k.y3),
      flatten_bytes(k.y1),
      to_bytes(c.u), flatten_bytes(c.e), to_bytes(c.v),
      to_bytes(test_values.u), flatten_bytes(test_values.e), to_bytes(test_values.v)>>

\* the first index (from 0) of a zero blinding, or None
ZeroBlindingAt(blindings) ==
    LET bad == {i \in 1..Len(blindings) : blindings[i] = 0}
    IN  IF bad = {} THEN None
        ELSE (CHOOSE i \in bad : \A j \in bad : i <= j) - 1

\* the proof of EncryptionKey::encrypt_and_prove_blindings for the challenge c
prove_responses(G, msgs, blindings, r, r_tick, c) ==
    [challenge |-> c,
     r |-> schnorr(G, r_tick, c, r),
     m |-> [i \in 1..Len(msgs) |-> schnorr(G, blindings[i], c, msgs[i])]]

\* EncryptionKey::encrypt_and_prove_blindings that checks the capacity before
\* the two lengths
prove_precheck_capacity_first(k, msgs, blindings) ==
    IF Len(msgs) > Len(k.y1) THEN "CapacityExceeded"
    ELSE IF Len(msgs) # Len(blindings) THEN "LengthMismatch"
    ELSE IF ZeroBlindingAt(blindings) # None THEN "InvalidBlinding"
    ELSE "Ok"

\* EncryptionKey::encrypt_and_prove_blindings before r is drawn: the three
\* early returns
prove_precheck(k, msgs, blindings) ==
    IF Len(msgs) # Len(blindings) THEN "LengthMismatch"
    ELSE IF Len(msgs) > Len(k.y1) THEN "CapacityExceeded"
    ELSE IF ZeroBlindingAt(blindings) # None THEN "InvalidBlinding"
    ELSE "Ok"

\* EncryptionKey::encrypt_and_prove_blindings(nonce, msgs, blindings), called as
\* op; after an error encIn keeps the arguments of the call
ProveBlindings(op, nonce, msgs, blindings) ==
    IF prove_precheck(ek, msgs, blindings) # "Ok"
    THEN /\ res' = [NoRes EXCEPT
                      !.op = op, !.status = prove_precheck(ek, msgs, blindings),
                      !.idx = IF prove_precheck(ek, msgs, blindings) = "InvalidBlinding"
                              THEN ZeroBlindingAt(blindings) ELSE None,
                      !.arg = Len(msgs), !.val = Len(blindings),
                      !.msgs = blindings, !.domain = nonce]
         /\ encIn' = [NoIn EXCEPT !.domain = nonce, !.msgs = msgs,
                                  !.blindings = blindings]
         /\ pc' = "done"
         /\ UNCHANGED <<ct, proof, hashOracle, fsOracle>>
    ELSE \E r \in random_for_encrypt(group) :
         LET hq == hash_input(compute_u(group, r), compute_e(group, ek, msgs, r), nonce)
         IN  \E hv \in HashValues :
             /\ Answers(hashOracle, hq, hv)
             /\ hashOracle' = Record(hashOracle, hq, hv)
             /\ LET ciphertext == encrypt_with_blinding_factor(group, ek, msgs, r, hv)
                IN  \E r_tick \in random_for_encrypt(group) :
                    LET test_values ==
                            ciphertext_test_values(group, ek, r_tick, hv, blindings)
                        fq == fiat_shamir_input(group, ek, nonce, ciphertext, test_values)
                    IN  \E c \in ChallengeValues :
                        /\ Answers(fsOracle, fq, c)
                        /\ fsOracle' = Record(fsOracle, fq, c)
                        /\ ct' = ciphertext
                        /\ proof' = prove_responses(group, msgs, blindings, r, r_tick, c)
                        /\ encIn' = [NoIn EXCEPT
                                       !.domain = nonce, !.msgs = msgs, !.r = r,
                                       !.r_tick = r_tick, !.blindings = blindings,
                                       !.hash = hv, !.test = test_values,
                                       !.honest = TRUE]
                        /\ res' = [NoRes EXCEPT !.op = op, !.status = "Ok",
                                                !.arg = Len(msgs), !.msgs = msgs,
                                                !.domain = nonce]
                        /\ pc' = "proof"

\* the messages offered to proof generation
ProofMsgValues(G) == {0, G.n - 1}

\* the blindings the caller offers: zero, and the largest value below n / 4
BlindingValues(G) == {0, G.nd4 - 1}

\* EncryptionKey::encrypt_and_prove_blindings(nonce, msgs, blindings)
EncryptAndProveBlindings ==
    /\ pc = "keys"
    /\ \E nonce \in ProofNonces, k \in 0..(Len(ek.y1) + 1), kb \in 0..(Len(ek.y1) + 1) :
       \E msgs \in SampleSeqs(ProofMsgValues(group), 0, k),
          blindings \in SampleSeqs(BlindingValues(group), group.nd4 - 1, kb) :
          ProveBlindings("encrypt_and_prove_blindings", nonce, msgs, blindings)
    /\ UNCHANGED <<group, dk, ek>>

\* EncryptionKey::encrypt_and_prove(nonce, msgs): one random_for_encrypt per
\* message, here on messages of the largest admissible value
EncryptAndProve ==
    /\ pc = "keys"
    /\ \E nonce \in ProofNonces, k \in 0..(Len(ek.y1) + 1) :
       \E msgs \in {[i \in 1..k |-> group.n - 1]},
          blindings \in {[i \in 1..k |-> b] : b \in random_for_encrypt(group)} :
          ProveBlindings("encrypt_and_prove", nonce, msgs, blindings)
    /\ UNCHANGED <<group, dk, ek>>

\* the commitments EncryptionKey::verify rebuilds; hs is the value of
\* hash(ciphertext.u, ciphertext.e, nonce)
verify_test_values(G, k, c, P, hs) ==
    LET two_c == P.challenge * 2
        two_r == P.r * 2
        uc    == pow(G, c.u, two_c)
        gr    == g_pow(G, two_r)
        vc    == pow(G, c.v, two_c)
        y3hs  == pow(G, k.y3, hs)
        y2y3hs   == mul(G, k.y2, y3hs)
        y2y3hsr2 == pow(G, y2y3hs, two_r)
    IN  [u |-> mul(G, uc, gr),
         e |-> [i \in 1..Len(P.m) |->
                  mul(G, mul(G, pow(G, c.e[i], two_c), pow(G, k.y1[i], two_r)),
                      h_pow(G, P.m[i] * 2))],
         v |-> mul(G, vc, y2y3hsr2)]

\* EncryptionKey::verify that compares the two lengths before the capacity
verify_precheck_length_first(k, c, P) ==
    IF Len(P.m) # Len(c.e) THEN "LengthMismatch"
    ELSE IF Len(P.m) > Len(k.y1) THEN "CapacityExceeded"
    ELSE "Ok"

\* EncryptionKey::verify before the commitments are rebuilt: the two early returns
verify_precheck(k, c, P) ==
    IF Len(P.m) > Len(k.y1) THEN "CapacityExceeded"
    ELSE IF Len(P.m) # Len(c.e) THEN "LengthMismatch"
    ELSE "Ok"

\* c with bit b flipped
FlipBit(c, b) ==
    IF (c \div Pow2(b)) % 2 = 1 THEN c - Pow2(b) ELSE c + Pow2(b)

\* the bits of a challenge that get flipped
FlipBits == {0}

\* one bit of the challenge of a proof in flight is flipped
FlipChallenge ==
    /\ pc = "proof"
    /\ encIn.honest
    /\ \E b \in FlipBits :
          proof' = [proof EXCEPT !.challenge = FlipBit(proof.challenge, b)]
    /\ encIn' = [encIn EXCEPT !.honest = FALSE, !.tamper = "challenge"]
    /\ res' = NoRes
    /\ UNCHANGED <<group, dk, ek, ct, hashOracle, fsOracle, pc>>

\* a ciphertext and a proof of the sender's own making, of up to L + 1
\* components and responses
ForgeProof ==
    /\ pc = "keys"
    /\ \E nonce \in ProofNonces, ke \in 0..(Len(ek.y1) + 1), km \in 0..(Len(ek.y1) + 1),
          c \in {0, 1}, r \in {-1, 1} :
          /\ ct' = [u |-> group.g, v |-> 1, e |-> [i \in 1..ke |-> group.h]]
          /\ proof' = [challenge |-> c, r |-> r, m |-> [i \in 1..km |-> 0]]
          /\ encIn' = [NoIn EXCEPT !.domain = nonce, !.tamper = "forged"]
    /\ res' = NoRes
    /\ pc' = "proof"
    /\ UNCHANGED <<group, dk, ek, hashOracle, fsOracle>>

\* EncryptionKey::verify that accepts whatever challenge it recomputes
verify_result_accepting(challenge, P) == "Ok"

\* the end of EncryptionKey::verify: the recomputed challenge against the proof's
verify_result(challenge, P) ==
    IF challenge = P.challenge THEN "Ok" ELSE "InvalidProof"

\* EncryptionKey::verify(nonce, ciphertext, proof), under the nonce the proof
\* came with
Verify ==
    /\ pc = "proof"
    /\ LET nonce == encIn.domain
           pre   == verify_precheck(ek, ct, proof)
       IN  IF pre # "Ok"
           THEN /\ res' = [NoRes EXCEPT !.op = "verify", !.status = pre,
                                         !.domain = nonce]
                /\ UNCHANGED <<hashOracle, fsOracle>>
           ELSE \E hs \in HashValues :
                /\ Answers(hashOracle, hash_input(ct.u, ct.e, nonce), hs)
                /\ hashOracle' = Record(hashOracle, hash_input(ct.u, ct.e, nonce), hs)
                /\ LET test_values == verify_test_values(group, ek, ct, proof, hs)
                       fq == fiat_shamir_input(group, ek, nonce, ct, test_values)
                   IN  \E challenge \in ChallengeValues :
                       /\ Answers(fsOracle, fq, challenge)
                       /\ fsOracle' = Record(fsOracle, fq, challenge)
                       /\ res' = [NoRes EXCEPT
                                    !.op = "verify",
                                    !.status = verify_result(challenge, proof),
                                    !.arg = hs, !.val = challenge, !.domain = nonce]
    /\ pc' = "done"
    /\ UNCHANGED <<group, dk, ek, ct, proof, encIn>>

----------------------------------------------------------------------------
(* VerifiableCipherText: equality                                          *)

\* impl PartialEq for VerifiableCipherText: e is compared over the zip of the
\* two vectors, which stops at the shorter
ciphertext_eq(a, b) ==
    /\ a.u = b.u
    /\ a.v = b.v
    /\ \A i \in 1..(IF Len(a.e) < Len(b.e) THEN Len(a.e) ELSE Len(b.e)) : a.e[i] = b.e[i]

\* the ciphertexts compared: every u, v in 1..2 and every e over 1..2 of length
\* up to MaxLen
CompareSet ==
    {[u |-> u, v |-> v, e |-> e] :
        u \in 1..2, v \in 1..2, e \in UNION {[1..k -> 1..2] : k \in 0..MaxLen}}

\* a == b on two ciphertexts; a is kept in ct, b in encIn.test
CompareCiphertexts ==
    /\ pc = "nogroup"
    /\ \E a \in CompareSet, b \in CompareSet :
          /\ ct' = a
          /\ encIn' = [NoIn EXCEPT !.test = b]
          /\ res' = [NoRes EXCEPT !.op = "eq",
                                  !.status = IF ciphertext_eq(a, b) THEN "true" ELSE "false"]
    /\ pc' = "done"
    /\ UNCHANGED <<group, dk, ek, proof, hashOracle, fsOracle>>

----------------------------------------------------------------------------
(* Group: serialization                                                    *)

RECURSIVE from_slice(_)
\* BigNumber::from_slice: the number a big-endian byte string stands for
from_slice(bs) ==
    IF bs = <<>> THEN 0
    ELSE from_slice(SubSeq(bs, 1, Len(bs) - 1)) * 256 + bs[Len(bs)]

\* impl Serialize for Group: only g and n are written, each as its bytes
serialize(G) == [g |-> to_bytes(G.g), n |-> to_bytes(G.n)]

\* impl Deserialize for Group that sets h to n
deserialize_h_is_n(sd) ==
    LET g == from_slice(sd.g)
        n == from_slice(sd.n)
        nn == n * n
        two_inv == invert(2, n)
    IN  IF two_inv = None THEN NoGroup
        ELSE [g |-> g, h |-> n, n |-> n, nd4 |-> n \div 4, nn |-> nn,
              n2d2 |-> nn \div 2, n2d4 |-> (nn \div 2) \div 2,
              two_inv_two |-> two_inv * 2]

\* impl Deserialize for Group: g and n are read and the other fields computed
\* again; NoGroup stands for the error "Unable to deserialize"
deserialize(sd) ==
    LET g == from_slice(sd.g)
        n == from_slice(sd.n)
        nn == n * n
        two_inv == invert(2, n)
    IN  IF two_inv = None THEN NoGroup
        ELSE [g |-> g, h |-> n + 1, n |-> n, nd4 |-> n \div 4, nn |-> nn,
              n2d2 |-> nn \div 2, n2d4 |-> (nn \div 2) \div 2,
              two_inv_two |-> two_inv * 2]

\* the serialized groups read from storage: g and n of one and of two bytes, an
\* even n, and an n written with a leading zero byte
StoredGroups ==
    {[g |-> g, n |-> n] : g \in {<<0>>, <<1>>, <<1, 0>>, <<3, 181>>},
                          n \in {<<15>>, <<16>>, <<0, 35>>, <<1, 67>>}}

\* a group is created by Deserialize from stored bytes; these groups are only
\* serialized again
DeserializeGroup ==
    /\ pc = "nogroup"
    /\ \E sd \in StoredGroups :
          LET G == deserialize(sd)
          IN  /\ group' = G
              /\ pc' = IF G = NoGroup THEN "nogroup" ELSE "stored"
              /\ res' = [NoRes EXCEPT !.op = "deserialize",
                                      !.status = IF G = NoGroup THEN "Err" ELSE "Ok",
                                      !.msgs = <<sd.g, sd.n>>]
    /\ UNCHANGED <<dk, ek, ct, proof, encIn, hashOracle, fsOracle>>

\* a group is serialized and the result deserialized; res.val is the group that
\* comes back, res.msgs the bytes written
SerdeGroup ==
    /\ pc \in {"group", "stored"}
    /\ LET sd   == serialize(group)
           back == deserialize(sd)
       IN  res' = [NoRes EXCEPT !.op = "serde",
                                !.status = IF back = NoGroup THEN "Err" ELSE "Ok",
                                !.val = back, !.msgs = <<sd.g, sd.n>>]
    /\ pc' = "done"
    /\ UNCHANGED <<group, dk, ek, ct, proof, encIn, hashOracle, fsOracle>>

----------------------------------------------------------------------------
(* Group: the hash of two component vectors                                *)

\* the component vectors hashed: of length up to MaxLen, over one-byte values
\* and one two-byte value
HashVectors == UNION {[1..k -> {1, 2, 258}] : k \in 0..MaxLen}

\* Group::hash(u, e, domain) and Group::hash(u, e2, domain) for the same u and
\* domain; e is kept in ct, e2 in encIn.test, the two values in res.arg and
\* res.val
HashPair ==
    /\ pc = "nogroup"
    /\ \E e \in HashVectors, e2 \in HashVectors, domain \in Domains :
          LET q  == hash_input(1, e, domain)
              q2 == hash_input(1, e2, domain)
          IN  \E hv \in HashValues, hv2 \in HashValues :
                 /\ Answers(hashOracle, q, hv)
                 /\ Answers(Record(hashOracle, q, hv), q2, hv2)
                 /\ hashOracle' = Record(Record(hashOracle, q, hv), q2, hv2)
                 /\ ct' = [NoCt EXCEPT !.u = 1, !.e = e]
                 /\ encIn' = [NoIn EXCEPT !.domain = domain,
                                          !.test = [NoCt EXCEPT !.u = 1, !.e = e2]]
                 /\ res' = [NoRes EXCEPT !.op = "hash", !.status = "Ok",
                                         !.arg = hv, !.val = hv2, !.domain = domain]
    /\ pc' = "done"
    /\ UNCHANGED <<group, dk, ek, proof, fsOracle>>

----------------------------------------------------------------------------
(* DecryptionKey: zeroization and destruction                              *)

\* impl Zeroize for DecryptionKey: x2, x3 and every x1[i] are set to zero; the
\* group is not touched
zeroize(d) == [x1 |-> [i \in 1..Len(d.x1) |-> 0], x2 |-> 0, x3 |-> 0]

\* DecryptionKey::zeroize(), called by the owner of the key
ZeroizeKey ==
    /\ pc = "keys"
    /\ dk' = zeroize(dk)
    /\ res' = [NoRes EXCEPT !.op = "zeroize", !.status = "Ok"]
    /\ pc' = "zeroized"
    /\ UNCHANGED <<group, ek, ct, proof, encIn, hashOracle, fsOracle>>

\* the key goes out of scope. DecryptionKey has no Drop implementation and
\* derives none, so its fields are released as they are: dk afterwards is what
\* the released storage holds
DropKey ==
    /\ pc \in {"keys", "zeroized"}
    /\ res' = [NoRes EXCEPT !.op = "drop", !.status = "Ok"]
    /\ pc' = "done"
    /\ UNCHANGED <<group, dk, ek, ct, proof, encIn, hashOracle, fsOracle>>

----------------------------------------------------------------------------
(* Specifications                                                          *)

\* encryption, decryption, and what a sender can forge
Next ==
    \/ NewGroup \/ NewKeys \/ Encrypt \/ NegateV \/ ForgeCiphertext \/ ForgeProof
    \/ Decrypt \/ Verify \/ ZeroizeKey \/ DropKey

Spec == Init /\ [][Next]_vars

\* proof generation and verification
ProofNext ==
    \/ NewGroup \/ NewKeys \/ Encrypt \/ EncryptAndProveBlindings \/ EncryptAndProve
    \/ FlipChallenge \/ ForgeProof \/ Verify

SpecProof == Init /\ [][ProofNext]_vars

\* the group's own operations and ciphertext equality
GroupNext ==
    \/ NewGroup \/ DeserializeGroup \/ AbsOp \/ CompareCiphertexts \/ SerdeGroup
    \/ HashPair

SpecGroup == Init /\ [][GroupNext]_vars

----------------------------------------------------------------------------
(* Properties                                                              *)

\* every message of msgs is in [0, n)
InRange(G, msgs) == \A i \in 1..Len(msgs) : 0 <= msgs[i] /\ msgs[i] < G.n

\* C1: decryption inverts encryption: decrypt under the domain of encryption, of
\* a ciphertext encrypt returned for messages in [0, n), succeeds and returns
\* exactly those messages.
C1_DecryptInvertsEncrypt ==
    (/\ res.op = "decrypt"
     /\ encIn.honest
     /\ res.domain = encIn.domain
     /\ InRange(group, encIn.msgs))
    => (res.status = "Ok" /\ res.msgs = encIn.msgs)

\* C2: honest proofs verify: the ciphertext and proof returned by
\* encrypt_and_prove_blindings or encrypt_and_prove are accepted by verify under
\* the same nonce.
C2_HonestProofsVerify ==
    (res.op = "verify" /\ encIn.honest) => res.status = "Ok"

\* C3 as stated: decrypt under a domain other than the domain of encryption
\* returns an error for every ciphertext encrypt returned for messages in [0, n).
C3_OtherDomainAlwaysFails ==
    (/\ res.op = "decrypt"
     /\ encIn.honest
     /\ res.domain # encIn.domain
     /\ InRange(group, encIn.msgs))
    => res.status # "Ok"

\* the power of the ciphertext's u that decrypt compares with v^2 when the hash
\* value is hv
ConsistencyPower(hv) == pow(group, ct.u, (hv * dk.x3 + dk.x2) * 2)

\* C3: domain separation: decrypt under a domain other than the domain of
\* encryption, of a ciphertext encrypt returned, fails the consistency check
\* whenever the two domains' hash values H' and H give different powers
\* u^(2(H' x3 + x2)) and u^(2(H x3 + x2)) modulo n^2; when the two powers agree
\* its outcome is the outcome of decryption under the domain of encryption.
C3_DomainSeparation ==
    (/\ res.op = "decrypt"
     /\ encIn.honest
     /\ res.domain # encIn.domain)
    => IF ConsistencyPower(res.val) # ConsistencyPower(encIn.hash)
       THEN res.status = "ConsistencyFailed" /\ res.msgs = <<>>
       ELSE LET same == decrypt_with_hash(group, dk, ct, encIn.hash)
            IN  res.status = same.status /\ res.msgs = same.msgs

\* C3 witness: an honest ciphertext of two messages was decrypted under the other
\* domain and failed the consistency check
C3_Witness ==
    /\ res.op = "decrypt"
    /\ encIn.honest
    /\ res.domain # encIn.domain
    /\ Len(ct.e) = 2
    /\ res.status = "ConsistencyFailed"

Rebuilt == verify_test_values(group, ek, ct, proof, res.arg)

C5_MessageBoundary ==
    (res.op = "encrypt" /\ res.status \in {"Ok", "InvalidMessage"})
    => (res.status = "InvalidMessage" <=> ~InRange(group, res.msgs))

\* C6: capacity rejection: encrypt given more messages than the key's capacity,
\* verify given a proof with more responses, and decrypt given a ciphertext
\* with more components each return CapacityExceeded, with no ciphertext and no
\* plaintext produced.
C6_CapacityRejection ==
    /\ (res.op = "encrypt" /\ res.arg > Len(ek.y1))
       => (res.status = "CapacityExceeded" /\ ct = NoCt)
    /\ (res.op = "verify" /\ Len(proof.m) > Len(ek.y1))
       => res.status = "CapacityExceeded"
    /\ (res.op = "decrypt" /\ Len(ct.e) > Len(dk.x1))
       => (res.status = "CapacityExceeded" /\ res.msgs = <<>>)

\* C6 witness: decrypt returned CapacityExceeded on a ciphertext of L + 1
\* components whose v is not canonical
C6_Witness ==
    /\ res.op = "decrypt"
    /\ Len(ct.e) = Len(dk.x1) + 1
    /\ ct.v > group.n2d2
    /\ res.status = "CapacityExceeded"

\* C7: abs is idempotent and preserves squares: for a in [0, n^2),
\* abs(abs(a)) = abs(a) and mul(abs(a), abs(a)) = mul(a, a).
C7_AbsIdempotentSquares ==
    (res.op = "abs" /\ 0 <= res.arg /\ res.arg < group.nn)
    => /\ abs(group, res.val) = res.val
       /\ mul(group, res.val, res.val) = mul(group, res.arg, res.arg)

\* C7 witness: abs was taken of a value above n^2 / 2 and gave its negative
C7_Witness ==
    /\ res.op = "abs"
    /\ res.arg > group.n2d2
    /\ res.arg < group.nn
    /\ res.val = group.nn - res.arg

\* C8: every ciphertext returned by encrypt, encrypt_and_prove_blindings or
\* encrypt_and_prove has u, v and every e[i] in [0, n^2), and v = abs(v) with
\* v <= floor(n^2 / 2).
C8_CiphertextCanonical ==
    encIn.honest
    => /\ ct.u \in 0..(group.nn - 1)
       /\ ct.v \in 0..(group.nn - 1)
       /\ \A i \in 1..Len(ct.e) : ct.e[i] \in 0..(group.nn - 1)
       /\ Len(ct.e) = Len(encIn.msgs)
       /\ ct.v = abs(group, ct.v)
       /\ ct.v <= group.n2d2

\* C8 witness: a returned ciphertext of a proof whose v is the negative of the
\* power compute_v took
C8_Witness ==
    /\ encIn.honest
    /\ pc = "proof"
    /\ Len(ct.e) >= 1
    /\ ct.v # compute_v(group, ek, encIn.r, encIn.hash, FALSE)

\* C9, the state after decrypt: a ciphertext within capacity whose v is not
\* abs(v), which is every v above floor(n^2 / 2), is answered with
\* AbsCheckFailed and no plaintext, and no hash value is in the result
C9_Rejected ==
    /\ (pc = "ct" /\ ct.v >= 0)
       => (ct.v # abs(group, ct.v) <=> ct.v > group.n2d2)
    /\ (res.op = "decrypt" /\ Len(ct.e) <= Len(dk.x1) /\ ct.v # abs(group, ct.v))
       => (res.status = "AbsCheckFailed" /\ res.msgs = <<>> /\ res.val = None)
    /\ (res.op = "decrypt" /\ encIn.tamper = "v" /\ ct.v # group.nn)
       => res.status = "AbsCheckFailed"

\* C9, the step of decrypt: on such a ciphertext decrypt makes no hash query
C9_NoHashUsed ==
    (/\ pc = "ct"
     /\ res'.op = "decrypt"
     /\ Len(ct.e) <= Len(dk.x1)
     /\ ct.v # abs(group, ct.v))
    => (hashOracle' = hashOracle /\ res'.status = "AbsCheckFailed")

\* C9: decrypt rejects a non-canonical v: a ciphertext within capacity whose v
\* differs from abs(v) (v above floor(n^2 / 2), v >= n^2 included) fails with
\* AbsCheckFailed before any hash is taken; replacing v by n^2 - v in a
\* ciphertext encrypt returned with v # 0 makes decrypt fail so.
C9_NonCanonicalRejected == []C9_Rejected /\ [][C9_NoHashUsed]_vars

\* C9 witness: the v of a returned ciphertext was replaced by n^2 - v, below
\* n^2, and decrypt answered AbsCheckFailed
C9_Witness ==
    /\ res.op = "decrypt"
    /\ encIn.tamper = "v"
    /\ ct.v < group.nn
    /\ Len(ct.e) >= 1
    /\ res.status = "AbsCheckFailed"

\* C10: ciphertext equality is componentwise: two ciphertexts compare equal
\* exactly when their u are equal, their v are equal and their e vectors have
\* the same length and the same elements.
C10_EqualityComponentwise ==
    res.op = "eq"
    => (res.status = "true"
        <=> (ct.u = encIn.test.u /\ ct.v = encIn.test.v /\ ct.e = encIn.test.e))

\* C11: secret scrubbing on destruction: when a DecryptionKey has gone out of
\* scope, each x1[i], x2 and x3 has been overwritten with zero.
C11_ScrubbedOnDrop ==
    res.op = "drop"
    => (dk.x2 = 0 /\ dk.x3 = 0 /\ \A i \in 1..Len(dk.x1) : dk.x1[i] = 0)

\* C12 as stated: with_safe_primes_unchecked(p, q) returns a group for every
\* pair of inputs with p # q.
C12_RejectsOnlyEqual ==
    (res.op = "with_safe_primes_unchecked" /\ res.arg # res.val)
    => res.status = "Some"

\* C12: with_safe_primes_unchecked(p, q) makes no primality check and returns
\* None exactly when p = q or p * q is even (2 has no inverse modulo n); for
\* every other pair it returns a group with n = p * q, nn = n^2,
\* n2d2 = floor(n^2 / 2), n2d4 = floor(n^2 / 4), nd4 = floor(n / 4), h = n + 1
\* and two_inv_two = 2 * (2^-1 mod n).
C12_GroupFields ==
    res.op = "with_safe_primes_unchecked"
    => LET n == res.arg * res.val
       IN  /\ res.status = "None" <=> (res.arg = res.val \/ n % 2 = 0)
           /\ res.status = "None" => group = NoGroup
           /\ res.status = "Some"
              => /\ group.n = n
                 /\ group.nn = n * n
                 /\ group.n2d2 = (n * n) \div 2
                 /\ group.n2d4 = (n * n) \div 4
                 /\ group.nd4 = n \div 4
                 /\ group.h = n + 1
                 /\ group.two_inv_two % 2 = 0
                 /\ (group.two_inv_two \div 2) \in 1..(n - 1)
                 /\ (group.two_inv_two \div 2) * 2 % n = 1
                 /\ group.g \in 0..(n * n - 1)

\* C12 witness: a group was returned for inputs that are not both prime
C12_Witness ==
    /\ res.op = "with_safe_primes_unchecked"
    /\ res.arg = 1
    /\ res.val = 15
    /\ res.status = "Some"
    /\ group.two_inv_two = 16

\* C13: group serialization round trip: serializing a group that
\* with_safe_primes_unchecked or Deserialize returned (g and n only) and
\* deserializing the result succeeds and gives a
\* group with the same g and n and the same nn, n2d2, n2d4, nd4, h and
\* two_inv_two.
C13_GroupRoundTrip ==
    res.op = "serde"
    => /\ res.status = "Ok"
       /\ res.val = group
       /\ res.msgs = <<to_bytes(group.g), to_bytes(group.n)>>

\* C13 witness: a group whose g and n take more than one byte came back after
\* the round trip
C13_Witness ==
    /\ res.op = "serde"
    /\ group.g > 255
    /\ group.n > 255
    /\ Len(res.msgs[1]) >= 2
    /\ Len(res.msgs[2]) = 2
    /\ res.val.g = group.g
    /\ res.val.two_inv_two = group.two_inv_two

\* the first index (from 0) at which bs is zero, or None
FirstZero(bs) ==
    IF \A i \in 1..Len(bs) : bs[i] # 0 THEN None
    ELSE (CHOOSE i \in 1..Len(bs) : bs[i] = 0 /\ \A j \in 1..(i - 1) : bs[j] # 0) - 1

\* C14: input validation of encrypt_and_prove_blindings: the result is
\* LengthMismatch when |msgs| # |blindings|, else CapacityExceeded when
\* |msgs| > L, else InvalidBlinding(i) with i the first zero index when some
\* blinding is zero, and in every other case a ciphertext and a proof with
\* |proof.m| = |ciphertext.e| = |msgs|; encrypt_and_prove never fails with
\* InvalidBlinding or LengthMismatch.
C14_ProveValidation ==
    res.op \in {"encrypt_and_prove_blindings", "encrypt_and_prove"}
    => /\ res.status =
             IF Len(encIn.msgs) # Len(encIn.blindings) THEN "LengthMismatch"
             ELSE IF Len(encIn.msgs) > Len(ek.y1) THEN "CapacityExceeded"
             ELSE IF FirstZero(encIn.blindings) # None THEN "InvalidBlinding"
             ELSE "Ok"
       /\ res.status = "InvalidBlinding" => res.idx = FirstZero(encIn.blindings)
       /\ res.status = "Ok"
          => (Len(proof.m) = Len(encIn.msgs) /\ Len(ct.e) = Len(encIn.msgs))
       /\ res.status # "Ok" => (ct = NoCt /\ proof = NoProof)
       /\ res.op = "encrypt_and_prove"
          => res.status \notin {"InvalidBlinding", "LengthMismatch"}

\* C14 witness: L + 1 messages with L blindings, one of them zero, were answered
\* with LengthMismatch
C14_Witness ==
    /\ res.op = "encrypt_and_prove_blindings"
    /\ Len(encIn.msgs) = Len(ek.y1) + 1
    /\ Len(encIn.blindings) = Len(ek.y1)
    /\ FirstZero(encIn.blindings) # None
    /\ res.status = "LengthMismatch"

\* C15: verify rejects mismatched lengths and stays in range: a proof with more
\* than L responses is answered with CapacityExceeded, else one whose number of
\* responses differs from the number of ciphertext components with
\* LengthMismatch; otherwise every index verify uses lies within C.e, P.m and
\* y1, the rebuilt e has one element per response, and the answer is Ok or
\* InvalidProof.
C15_VerifyLengths ==
    res.op = "verify"
    => /\ Len(proof.m) > Len(ek.y1) => res.status = "CapacityExceeded"
       /\ (Len(proof.m) <= Len(ek.y1) /\ Len(proof.m) # Len(ct.e))
          => res.status = "LengthMismatch"
       /\ (Len(proof.m) <= Len(ek.y1) /\ Len(proof.m) = Len(ct.e))
          => /\ res.status \in {"Ok", "InvalidProof"}
             /\ 1..Len(proof.m) \subseteq (DOMAIN ct.e \cap DOMAIN ek.y1)
             /\ Len(Rebuilt.e) = Len(proof.m)
       /\ res.status \in {"CapacityExceeded", "LengthMismatch"} => res.val = None

\* C15 witness: a proof within capacity for a ciphertext of L + 1 components was
\* answered with LengthMismatch
C15_Witness ==
    /\ res.op = "verify"
    /\ Len(ct.e) = Len(ek.y1) + 1
    /\ Len(proof.m) = Len(ek.y1)
    /\ res.status = "LengthMismatch"

\* whether ct.u^x1[i] has an inverse modulo n^2 (i from 1)
HasInverse(i) == invert(pow(group, ct.u, dk.x1[i]), group.nn) # None

\* the m_hat of component i (from 1) of ct under dk
MHatAt(i) ==
    pow(group,
        mul(group, invert(pow(group, ct.u, dk.x1[i]), group.nn), ct.e[i]),
        group.two_inv_two)

\* component i is reached by the loop and fails the check m_hat mod n = 1
FirstFailing(i) ==
    /\ \A j \in 1..i : HasInverse(j)
    /\ \A j \in 1..(i - 1) : MHatAt(j) % group.n = 1
    /\ MHatAt(i) % group.n # 1

\* C16 as stated: whenever decrypt gets past the checks on v and some component
\* fails the check m_hat mod n = 1, decrypt returns DecryptionFailed(i) for the
\* first such component.
C16_FailedCheckReported ==
    (/\ res.op = "decrypt"
     /\ res.status \notin {"CapacityExceeded", "AbsCheckFailed", "ConsistencyFailed"}
     /\ \E i \in 1..Len(ct.e) : HasInverse(i) /\ MHatAt(i) % group.n # 1)
    => /\ res.status = "DecryptionFailed"
       /\ HasInverse(res.idx + 1)
       /\ MHatAt(res.idx + 1) % group.n # 1
       /\ \A j \in 1..res.idx : ~(HasInverse(j) /\ MHatAt(j) % group.n # 1)

\* C16: well-formed decrypt output: when decrypt returns Ok(m), m has |ct.e|
\* entries, each in [0, n), and each is the exact quotient (m_hat - 1) / n with
\* m_hat mod n = 1; when the loop reaches a component that fails this check,
\* every component up to it having an inverse of u^x1, decrypt returns
\* DecryptionFailed(i) for the first such index; no error comes with a partial
\* plaintext.
C16_DecryptOutput ==
    res.op = "decrypt"
    => /\ res.status = "Ok"
          => /\ Len(res.msgs) = Len(ct.e)
             /\ \A i \in 1..Len(ct.e) :
                   /\ res.msgs[i] \in 0..(group.n - 1)
                   /\ HasInverse(i)
                   /\ MHatAt(i) % group.n = 1
                   /\ res.msgs[i] * group.n + 1 = MHatAt(i)
       /\ res.status = "DecryptionFailed"
          => (res.idx + 1 \in 1..Len(ct.e) /\ FirstFailing(res.idx + 1))
       /\ (/\ res.status \notin {"CapacityExceeded", "AbsCheckFailed", "ConsistencyFailed"}
           /\ \E i \in 1..Len(ct.e) : FirstFailing(i))
          => (res.status = "DecryptionFailed" /\ FirstFailing(res.idx + 1))
       /\ res.status # "Ok" => res.msgs = <<>>

\* C16 witness: a forged ciphertext whose first component decrypts and whose
\* second fails the check was answered with DecryptionFailed(1)
C16_Witness ==
    /\ res.op = "decrypt"
    /\ encIn.tamper = "forged"
    /\ Len(ct.e) = 2
    /\ ct.u = group.g
    /\ HasInverse(1)
    /\ MHatAt(1) % group.n = 1
    /\ res.status = "DecryptionFailed"
    /\ res.idx = 1

\* C17: hash binds the component vector: for the same u and domain, two
\* different vectors e # e2 give different byte strings under the label "e",
\* so the two hashes are taken of different transcript inputs.
C17_HashBindsVector ==
    (res.op = "hash" /\ ct.e # encIn.test.e)
    => /\ flatten_bytes(ct.e) # flatten_bytes(encIn.test.e)
       /\ hash_input(ct.u, ct.e, res.domain)
             # hash_input(encIn.test.u, encIn.test.e, res.domain)

====
